---- MODULE Spec2Model ----
(* A model of the h5pp Conan recipe (conanfile.py, class h5ppConan).        *)
(* The recipe is a ConanFile: its four methods configure, package_id, build *)
(* and package are lifecycle hooks that the package manager calls one after *)
(* the other; an exception raised by a hook ends the run.  The helpers the  *)
(* recipe calls (tools.check_min_cppstd, CMake, info.header_only) are       *)
(* modelled by what they do to the state the recipe can observe.            *)
EXTENDS Integers, Sequences, FiniteSets, TLC

VARIABLES
    options,        \* self.options: tests, examples, verbose
    settings,       \* self.settings: os, compiler, build_type, arch, cppstd
    requires,       \* self.requires: the declared (name, version) pairs
    driver,         \* the external build tool: which of its steps succeed
    phase,          \* position of the run in the ConanFile lifecycle
    err,            \* the exception that ended the run, NoError if none
    log,            \* every helper call made by the hooks, in order
    buildCmake,     \* the CMake object constructed by build()
    packageCmake,   \* the CMake object constructed by package()
    info,           \* self.info: the data the package id is computed from
    pkgId,          \* the package id computed from self.info
    pidDone,        \* package_id() has been called
    artifacts       \* what the driver's steps have written to disk

vars == <<options, settings, requires, driver, phase, err, log, buildCmake,
          packageCmake, info, pkgId, pidDone, artifacts>>

-----------------------------------------------------------------------------
(* Bounds and program constants *)

\* How many of the known C++ standards a toolchain of the model may detect.
NumStd == 5

\* tools.check_min_cppstd(self, "17")
MinCppstd == 17

KnownStds == <<98, 11, 14, 17, 20, 23, 26>>

CppStds == {KnownStds[i] : i \in 1..NumStd}

NoError == "NoError"

\* class attribute requires = "eigen/3.3.7", "spdlog/1.7.0", "hdf5/1.12.0"
DeclaredRequires ==
    << [name |-> "eigen",  version |-> <<3, 3, 7>>],
       [name |-> "spdlog", version |-> <<1, 7, 0>>],
       [name |-> "hdf5",   version |-> <<1, 12, 0>>] >>

\* options = {'tests': [True, False], 'examples': [...], 'verbose': [...]}
OptionSpace == [tests : BOOLEAN, examples : BOOLEAN, verbose : BOOLEAN]

\* default_options = ('tests=True', 'examples=False', 'verbose=False')
default_options == [tests |-> TRUE, examples |-> FALSE, verbose |-> FALSE]

\* settings = "os", "compiler", "build_type", "arch" (cppstd is the
\* compiler.cppstd sub-setting that check_min_cppstd reads)
SettingSpace ==
    [os : {"Linux", "Windows"}, compiler : {"gcc", "clang"},
     build_type : {"Release", "Debug"}, arch : {"x86_64", "armv8"},
     cppstd : CppStds]

\* Outcome of each step of the external build tool in this run.
DriverSpace == [configure : BOOLEAN, build : BOOLEAN, test : BOOLEAN,
                install : BOOLEAN]

-----------------------------------------------------------------------------
(* tools.check_min_cppstd *)

\* "98" is C++98, every other value is a standard of the 2000s.
add_millennium(cppstd) == IF cppstd = 98 THEN 1900 + cppstd ELSE 2000 + cppstd

less_than(lhs, rhs) == add_millennium(lhs) < add_millennium(rhs)

\* Raises when the detected standard is older than the required one.
check_min_cppstd(current, required) ==
    IF less_than(current, required) THEN "ToolchainError" ELSE NoError

-----------------------------------------------------------------------------
(* The CMake helper *)

NoDefinitions == [k \in {} |-> TRUE]

\* CMake(self): a new object, no step run yet.  definitions holds the
\* entries the recipe writes; configured_with is what the configure step
\* was given.
CMake == [definitions |-> NoDefinitions, calls |-> <<>>,
          configured_with |-> NoDefinitions, configured |-> FALSE,
          raised |-> NoError]

\* cmake.definitions[key] = value
SetDefinition(c, key, value) ==
    IF c.raised # NoError THEN c
    ELSE [c EXCEPT !.definitions =
            [k \in (DOMAIN c.definitions) \cup {key} |->
                IF k = key THEN value ELSE c.definitions[k]]]

\* The exception a failing driver step raises.
ErrorOf(step) ==
    CASE step = "configure" -> "BuildError"
      [] step = "build"     -> "BuildError"
      [] step = "test"      -> "TestFailure"
      [] step = "install"   -> "InstallError"

\* Variant: a step runs even though an earlier one has raised.
RunStep_no_propagation(c, step, ok) ==
    [c EXCEPT !.calls = Append(@, step),
              !.raised = IF ok THEN c.raised ELSE ErrorOf(step)]

\* One step of the driver: it is skipped when an exception is already
\* propagating, and raises when the external tool fails.
RunStep(c, step, ok) ==
    IF c.raised # NoError THEN c
    ELSE [c EXCEPT !.calls = Append(@, step),
                   !.raised = IF ok THEN NoError ELSE ErrorOf(step)]

cmake_configure(c, drv) ==
    IF c.raised # NoError THEN c
    ELSE [RunStep(c, "configure", drv.configure) EXCEPT
            !.configured_with = c.definitions, !.configured = TRUE]

cmake_build(c, drv) == RunStep(c, "build", drv.build)

\* Variant: a failing test run is not reported.
cmake_test_swallowed(c, drv) == RunStep(c, "test", TRUE)

cmake_test(c, drv) == RunStep(c, "test", drv.test)

cmake_install(c, drv) == RunStep(c, "install", drv.install)

\* The steps of c that returned without raising.
Succeeded(c) ==
    IF c.raised = NoError THEN c.calls
    ELSE SubSeq(c.calls, 1, Len(c.calls) - 1)

\* What the successful steps of c leave on disk: the build step writes the
\* build tree, the install step stages the package.
Outputs(c) ==
    {"build" : i \in {j \in 1..Len(Succeeded(c)) : Succeeded(c)[j] = "build"}}
    \cup
    {"package" : i \in {j \in 1..Len(Succeeded(c)) : Succeeded(c)[j] = "install"}}

-----------------------------------------------------------------------------
(* The bodies of build() and package() *)

\* Variant: the test step is not gated on the option.
build_body_always_tests(opts, drv) ==
    LET c1 == SetDefinition(CMake, "H5PP_ENABLE_TESTS", opts.tests)
        c2 == SetDefinition(c1, "H5PP_BUILD_EXAMPLES", opts.examples)
        c3 == SetDefinition(c2, "H5PP_PRINT_INFO", opts.verbose)
        c4 == SetDefinition(c3, "H5PP_DOWNLOAD_METHOD", "conan")
        c5 == cmake_configure(c4, drv)
        c6 == cmake_build(c5, drv)
    IN  cmake_test(c6, drv)

\* Variant: the build step is invoked before the configure step.
build_body_build_first(opts, drv) ==
    LET c1 == SetDefinition(CMake, "H5PP_ENABLE_TESTS", opts.tests)
        c2 == SetDefinition(c1, "H5PP_BUILD_EXAMPLES", opts.examples)
        c3 == SetDefinition(c2, "H5PP_PRINT_INFO", opts.verbose)
        c4 == SetDefinition(c3, "H5PP_DOWNLOAD_METHOD", "conan")
        c5 == cmake_build(c4, drv)
        c6 == cmake_configure(c5, drv)
    IN  IF opts.tests THEN cmake_test(c6, drv) ELSE c6

\* Variant: examples and verbose feed each other's key.
build_body_swapped_keys(opts, drv) ==
    LET c1 == SetDefinition(CMake, "H5PP_ENABLE_TESTS", opts.tests)
        c2 == SetDefinition(c1, "H5PP_BUILD_EXAMPLES", opts.verbose)
        c3 == SetDefinition(c2, "H5PP_PRINT_INFO", opts.examples)
        c4 == SetDefinition(c3, "H5PP_DOWNLOAD_METHOD", "conan")
        c5 == cmake_configure(c4, drv)
        c6 == cmake_build(c5, drv)
    IN  IF opts.tests THEN cmake_test(c6, drv) ELSE c6

\* def build(self): the CMake object as build() leaves it.
build_body(opts, drv) ==
    LET c1 == SetDefinition(CMake, "H5PP_ENABLE_TESTS", opts.tests)
        c2 == SetDefinition(c1, "H5PP_BUILD_EXAMPLES", opts.examples)
        c3 == SetDefinition(c2, "H5PP_PRINT_INFO", opts.verbose)
        c4 == SetDefinition(c3, "H5PP_DOWNLOAD_METHOD", "conan")
        c5 == cmake_configure(c4, drv)
        c6 == cmake_build(c5, drv)
    IN  IF opts.tests THEN cmake_test(c6, drv) ELSE c6

\* Variant: package() configures the driver like build() does.
package_body_reconfigures(opts, drv) ==
    LET c1 == SetDefinition(CMake, "H5PP_ENABLE_TESTS", opts.tests)
        c2 == cmake_configure(c1, drv)
    IN  cmake_install(c2, drv)

\* def package(self): the CMake object as package() leaves it.
package_body(opts, drv) == cmake_install(CMake, drv)

-----------------------------------------------------------------------------
(* self.info and the package id *)

\* self.info as the package manager fills it before package_id() runs.
ConanInfo(s, o, r) ==
    [settings |-> {<<"os", s.os>>, <<"compiler", s.compiler>>,
                   <<"build_type", s.build_type>>, <<"arch", s.arch>>,
                   <<"compiler.cppstd", s.cppstd>>},
     options  |-> {<<"tests", o.tests>>, <<"examples", o.examples>>,
                   <<"verbose", o.verbose>>},
     requires |-> {r[i] : i \in 1..Len(r)}]

\* Variant: the settings stay part of the id.
header_only_keeps_settings(i) == [i EXCEPT !.options = {}, !.requires = {}]

\* self.info.header_only(): clears settings, options and requires.
header_only(i) == [settings |-> {}, options |-> {}, requires |-> {}]

\* The package id is a digest of the dump of self.info; the digest is taken
\* to be free of collisions, so the dump stands for it.
PackageId(i) == <<i.settings, i.options, i.requires>>

-----------------------------------------------------------------------------
(* The lifecycle *)

Init ==
    /\ options \in OptionSpace
    /\ settings \in SettingSpace
    /\ requires = DeclaredRequires
    /\ driver \in DriverSpace
    /\ phase = "init"
    /\ err = NoError
    /\ log = <<>>
    /\ buildCmake = CMake
    /\ packageCmake = CMake
    /\ info = ConanInfo(settings, options, requires)
    /\ pkgId = PackageId(info)
    /\ pidDone = FALSE
    /\ artifacts = {}

\* Variant: configure() asks for C++14 only.
configure_min_14 ==
    /\ phase = "init"
    /\ LET e == check_min_cppstd(settings.cppstd, MinCppstd - 3)
       IN  /\ err' = e
           /\ phase' = IF e = NoError THEN "configured" ELSE "failed"
    /\ log' = Append(log, "check_min_cppstd")
    /\ UNCHANGED <<options, settings, requires, driver, buildCmake,
                   packageCmake, info, pkgId, pidDone, artifacts>>

\* def configure(self)
configure ==
    /\ phase = "init"
    /\ LET e == check_min_cppstd(settings.cppstd, MinCppstd)
       IN  /\ err' = e
           /\ phase' = IF e = NoError THEN "configured" ELSE "failed"
    /\ log' = Append(log, "check_min_cppstd")
    /\ UNCHANGED <<options, settings, requires, driver, buildCmake,
                   packageCmake, info, pkgId, pidDone, artifacts>>

\* Variant: the declared requirements are cleared, not those of self.info.
package_id_clears_requires ==
    /\ phase \in {"configured", "built", "packaged"}
    /\ ~pidDone
    /\ info' = header_only(info)
    /\ pkgId' = PackageId(info')
    /\ pidDone' = TRUE
    /\ requires' = <<>>
    /\ UNCHANGED <<options, settings, driver, phase, err, log,
                   buildCmake, packageCmake, artifacts>>

\* def package_id(self)
package_id ==
    /\ phase \in {"configured", "built", "packaged"}
    /\ ~pidDone
    /\ info' = header_only(info)
    /\ pkgId' = PackageId(info')
    /\ pidDone' = TRUE
    /\ UNCHANGED <<options, settings, requires, driver, phase, err, log,
                   buildCmake, packageCmake, artifacts>>

\* Variant: build() switches the tests option on.
build_overrides_tests ==
    /\ phase = "configured"
    /\ LET c == build_body(options, driver)
       IN  /\ buildCmake' = c
           /\ log' = log \o c.calls
           /\ err' = c.raised
           /\ phase' = IF c.raised = NoError THEN "built" ELSE "failed"
           /\ artifacts' = artifacts \cup Outputs(c)
    /\ options' = [options EXCEPT !.tests = TRUE]
    /\ UNCHANGED <<settings, requires, driver, packageCmake, info,
                   pkgId, pidDone>>

\* def build(self)
build ==
    /\ phase = "configured"
    /\ LET c == build_body(options, driver)
       IN  /\ buildCmake' = c
           /\ log' = log \o c.calls
           /\ err' = c.raised
           /\ phase' = IF c.raised = NoError THEN "built" ELSE "failed"
           /\ artifacts' = artifacts \cup Outputs(c)
    /\ UNCHANGED <<options, settings, requires, driver, packageCmake, info,
                   pkgId, pidDone>>

\* def package(self)
package ==
    /\ phase = "built"
    /\ LET c == package_body(options, driver)
       IN  /\ packageCmake' = c
           /\ log' = log \o c.calls
           /\ err' = c.raised
           /\ phase' = IF c.raised = NoError THEN "packaged" ELSE "failed"
           /\ artifacts' = artifacts \cup Outputs(c)
    /\ UNCHANGED <<options, settings, requires, driver, buildCmake, info,
                   pkgId, pidDone>>

Next == configure \/ package_id \/ build \/ package

Spec == Init /\ [][Next]_vars

TypeOK ==
    /\ options \in OptionSpace
    /\ settings \in SettingSpace
    /\ driver \in DriverSpace
    /\ phase \in {"init", "configured", "built", "packaged", "failed"}
    /\ err \in {NoError, "ToolchainError", "BuildError", "TestFailure",
                "InstallError"}
    /\ pidDone \in BOOLEAN
    /\ artifacts \subseteq {"build", "package"}

-----------------------------------------------------------------------------
(* Vocabulary of the properties *)

\* The detected standard is C++17 or newer (C++98 is older than C++11).
Compliant == settings.cppstd # 98 /\ settings.cppstd >= 17

Invoked(step) == \E i \in 1..Len(log) : log[i] = step

IsPrefix(s, t) == Len(s) <= Len(t) /\ s = SubSeq(t, 1, Len(s))

\* Whether a logged helper call succeeds in this run.
StepOk(step) ==
    IF step = "check_min_cppstd" THEN Compliant ELSE driver[step]

BuildRan == buildCmake # CMake

PackageRan == packageCmake # CMake

H5ppKeys == {"H5PP_ENABLE_TESTS", "H5PP_BUILD_EXAMPLES", "H5PP_PRINT_INFO",
             "H5PP_DOWNLOAD_METHOD"}

-----------------------------------------------------------------------------
(* C1 *)

\* C1: once configure() has run, it has succeeded if and only if the
\* detected C++ standard is 17 or newer, whatever the options; below 17 the
\* run has failed with ToolchainError, the only helper call made is the
\* validation itself, no driver object was used, nothing is on disk and no
\* further hook can run.
C1_ConfigureIffCppstd17 ==
    phase # "init" =>
        /\ Head(log) = "check_min_cppstd"
        /\ Compliant => err # "ToolchainError"
        /\ (Compliant /\ log = <<"check_min_cppstd">>) =>
                (phase = "configured" /\ err = NoError)
        /\ ~Compliant =>
                /\ phase = "failed"
                /\ err = "ToolchainError"
                /\ log = <<"check_min_cppstd">>
                /\ buildCmake = CMake
                /\ packageCmake = CMake
                /\ artifacts = {}
                /\ ~pidDone
                /\ ~ENABLED Next

C1_Witness ==
    /\ phase = "failed"
    /\ err = "ToolchainError"
    /\ settings.cppstd = 98
    /\ options.tests /\ options.verbose

-----------------------------------------------------------------------------
(* C2 *)

\* C2: with tests = false the driver's test step is never invoked, in no
\* hook, whatever examples and verbose are and whether the test suite would
\* have passed or failed.
C2_NoTestStepWhenTestsOff ==
    ~options.tests =>
        /\ ~Invoked("test")
        /\ \A i \in 1..Len(buildCmake.calls) : buildCmake.calls[i] # "test"
        /\ \A i \in 1..Len(packageCmake.calls) : packageCmake.calls[i] # "test"
        /\ err # "TestFailure"

C2_Witness ==
    /\ ~options.tests
    /\ ~driver.test
    /\ options.examples
    /\ phase = "packaged"

-----------------------------------------------------------------------------
(* C3 *)

\* C3: when tests = true and the test suite fails (build() ran and the
\* driver's configure and build steps succeeded), build() has raised
\* TestFailure after invoking the test step, the run is failed, the install
\* step was not invoked, no package is staged and package() cannot run.
C3_TestFailureStopsRun ==
    (options.tests /\ ~driver.test /\ driver.configure /\ driver.build
        /\ BuildRan) =>
        /\ buildCmake.calls = <<"configure", "build", "test">>
        /\ buildCmake.raised = "TestFailure"
        /\ err = "TestFailure"
        /\ phase = "failed"
        /\ ~Invoked("install")
        /\ ~PackageRan
        /\ "package" \notin artifacts
        /\ ~ENABLED package

C3_Witness ==
    /\ options.tests /\ ~driver.test /\ driver.install
    /\ BuildRan
    /\ err = "TestFailure"

-----------------------------------------------------------------------------
(* C4 *)

DefaultRunLog == <<"check_min_cppstd", "configure", "build", "test", "install">>

\* C4: with the default options, a compliant toolchain and a driver whose
\* steps succeed, the helper calls made so far are always an initial part of
\* validation, driver configure, driver build, driver test, driver install,
\* none fails, and the finished run has made all five, the install from
\* package(); in every run a driver build step directly follows a driver
\* configure step of the same build(), and a test step directly follows a
\* build step that succeeded, with tests enabled.
C4_StepOrder ==
    /\ (options = default_options /\ Compliant /\ driver.configure
            /\ driver.build /\ driver.test /\ driver.install) =>
        /\ IsPrefix(log, DefaultRunLog)
        /\ err = NoError
        /\ phase # "failed"
        /\ phase = "configured" => log = SubSeq(DefaultRunLog, 1, 1)
        /\ phase = "built" =>
              /\ log = SubSeq(DefaultRunLog, 1, 4)
              /\ buildCmake.calls = <<"configure", "build", "test">>
        /\ phase = "packaged" =>
              /\ log = DefaultRunLog
              /\ buildCmake.calls = <<"configure", "build", "test">>
              /\ packageCmake.calls = <<"install">>
    /\ \A i \in 1..Len(buildCmake.calls) :
        /\ buildCmake.calls[i] = "configure" => i = 1
        /\ buildCmake.calls[i] = "build" =>
              (i = 2 /\ buildCmake.calls[1] = "configure" /\ driver.configure)
        /\ buildCmake.calls[i] = "test" =>
              (i = 3 /\ buildCmake.calls[2] = "build" /\ driver.build
                     /\ options.tests)
    /\ BuildRan => buildCmake.calls[1] = "configure"

C4_Witness ==
    /\ options = default_options
    /\ Compliant
    /\ phase = "packaged"
    /\ log = DefaultRunLog

-----------------------------------------------------------------------------
(* C5 *)

\* C5: the package id computed after package_id() is the id the same recipe
\* gets under every other choice of the settings (os, compiler, build type,
\* architecture, standard) with the same options.
C5_PackageIdIgnoresSettings ==
    pidDone =>
        \A s \in SettingSpace :
            pkgId = PackageId(header_only(ConanInfo(s, options, requires)))

C5_Witness ==
    /\ pidDone
    /\ settings.compiler = "clang"
    /\ settings.arch = "armv8"
    /\ settings.build_type = "Debug"

-----------------------------------------------------------------------------
(* C6 *)

\* C6 as stated: when the run fails before the install step, the install
\* step has not run and nothing at all has been produced on disk.
C6_ZeroArtifactsOnFailure ==
    (phase = "failed" /\ err # "InstallError") =>
        (~Invoked("install") /\ artifacts = {})

\* C6, amended: a helper call that fails is the last call of the run, its
\* exception is the run's error and the run is failed; a run failed before
\* the install step has not invoked it, has staged no package, and no hook
\* can run any more; a run is failed exactly when it has an error, and a
\* packaged run made every call successfully and staged the package.  (The
\* build tree of a build step that succeeded stays on disk when the test
\* run fails afterwards.)
C6_FailureStopsRun ==
    /\ \A i \in 1..Len(log) :
            ~StepOk(log[i]) =>
                /\ i = Len(log)
                /\ phase = "failed"
                /\ err = (IF log[i] = "check_min_cppstd" THEN "ToolchainError"
                          ELSE ErrorOf(log[i]))
    /\ (phase = "failed") <=> (err # NoError)
    /\ (phase = "failed") =>
            (Len(log) > 0 /\ ~StepOk(log[Len(log)]) /\ ~ENABLED Next)
    /\ (phase = "failed" /\ err # "InstallError") =>
            /\ ~Invoked("install")
            /\ ~PackageRan
            /\ "package" \notin artifacts
    /\ (phase = "packaged") =>
            /\ \A i \in 1..Len(log) : StepOk(log[i])
            /\ log[Len(log)] = "install"
            /\ artifacts = {"build", "package"}

C6_Witness ==
    /\ phase = "failed"
    /\ err = "TestFailure"
    /\ log = <<"check_min_cppstd", "configure", "build", "test">>
    /\ artifacts = {"build"}
    /\ driver.install

-----------------------------------------------------------------------------
(* C7 *)

\* C7: what build() hands to the driver's configure step is exactly the
\* four keys, H5PP_ENABLE_TESTS = tests, H5PP_BUILD_EXAMPLES = examples,
\* H5PP_PRINT_INFO = verbose and H5PP_DOWNLOAD_METHOD = "conan", all set
\* before the step is invoked and none changed after; with the default
\* options the three values are true, false, false.
C7_FourDefinitions ==
    BuildRan =>
        /\ buildCmake.configured
        /\ DOMAIN buildCmake.configured_with = H5ppKeys
        /\ Cardinality(DOMAIN buildCmake.configured_with) = 4
        /\ buildCmake.configured_with["H5PP_ENABLE_TESTS"] = options.tests
        /\ buildCmake.configured_with["H5PP_BUILD_EXAMPLES"] = options.examples
        /\ buildCmake.configured_with["H5PP_PRINT_INFO"] = options.verbose
        /\ buildCmake.configured_with["H5PP_DOWNLOAD_METHOD"] = "conan"
        /\ buildCmake.definitions = buildCmake.configured_with
        /\ options = default_options =>
              /\ buildCmake.configured_with["H5PP_ENABLE_TESTS"] = TRUE
              /\ buildCmake.configured_with["H5PP_BUILD_EXAMPLES"] = FALSE
              /\ buildCmake.configured_with["H5PP_PRINT_INFO"] = FALSE

C7_Witness ==
    /\ BuildRan
    /\ ~options.tests /\ options.examples /\ ~options.verbose
    /\ buildCmake.configured_with["H5PP_BUILD_EXAMPLES"] = TRUE

-----------------------------------------------------------------------------
(* C8 *)

\* The value forwarded as H5PP_ENABLE_TESTS is the value of tests, and the
\* test step is invoked after a successful build step exactly when it is on.
C8_ForwardedIsGate ==
    BuildRan =>
        /\ buildCmake.configured_with["H5PP_ENABLE_TESTS"] = options.tests
        /\ (driver.configure /\ driver.build) =>
              (Invoked("test") <=>
                    buildCmake.configured_with["H5PP_ENABLE_TESTS"])

\* C8: no step of the lifecycle changes an option, and the value of tests
\* forwarded to the driver is the one that gates the test step.
C8_OptionsFixed == [][options' = options]_vars /\ []C8_ForwardedIsGate

C8_Witness ==
    /\ phase = "packaged"
    /\ pidDone
    /\ ~options.tests /\ options.verbose
    /\ buildCmake.configured_with["H5PP_ENABLE_TESTS"] = FALSE

-----------------------------------------------------------------------------
(* C9 *)

\* C9: the declared requirements are eigen 3.3.7, spdlog 1.7.0 and
\* hdf5 1.12.0 in every state of the run: no hook changes a name or a
\* version, adds or drops a requirement.
C9_RequiresPinned ==
    requires = << [name |-> "eigen",  version |-> <<3, 3, 7>>],
                  [name |-> "spdlog", version |-> <<1, 7, 0>>],
                  [name |-> "hdf5",   version |-> <<1, 12, 0>>] >>

C9_Witness ==
    /\ phase = "packaged"
    /\ pidDone
    /\ info.requires = {}

-----------------------------------------------------------------------------
(* C10 *)

\* C10: once package() has run, its driver object has made exactly one
\* call, install, carries no definition and was never configured; it is the
\* same for every value of the options; the run is packaged when the
\* install step succeeded and failed with InstallError when it did not; and
\* the object of build() still has only the steps of build().
C10_PackageOnlyInstalls ==
    PackageRan =>
        /\ packageCmake.calls = <<"install">>
        /\ packageCmake.definitions = NoDefinitions
        /\ ~packageCmake.configured
        /\ \A o \in OptionSpace : packageCmake = package_body(o, driver)
        /\ log = <<"check_min_cppstd">> \o buildCmake.calls \o <<"install">>
        /\ \A i \in 1..Len(buildCmake.calls) : buildCmake.calls[i] # "install"
        /\ driver.install => (phase = "packaged" /\ err = NoError)
        /\ ~driver.install => (phase = "failed" /\ err = "InstallError")

C10_Witness ==
    /\ PackageRan
    /\ ~driver.install
    /\ err = "InstallError"
    /\ options.tests /\ options.examples

====
